---- MODULE Spec2Model ----
(***************************************************************************)
(* mysql2sqlite (src/src/main.rs): convert_dump, convert_remote and the    *)
(* helpers they use.  A Rust String is a sequence of one-character         *)
(* strings; indices returned by find/rfind are 0-based as in Rust, -1      *)
(* stands for None.  The backquote character is written "bq".              *)
(***************************************************************************)
EXTENDS Integers, Sequences, FiniteSets, TLC

(* ------------------------------------------------------------------ *)
(* bounds                                                              *)
(* ------------------------------------------------------------------ *)
\* number of dump fragments the reader delivers before end of stream
MaxFragments == 2

\* columns DESCRIBE reports for a table, at most
MaxCols == 1

\* rows SELECT * returns for a table, at most
MaxRows == 1

(* ------------------------------------------------------------------ *)
(* str / String primitives                                             *)
(* ------------------------------------------------------------------ *)
\* char::is_whitespace on the characters that occur
IsWs(c) == c \in {" ", "\t", "\n", "\r"}

RECURSIVE TrimStart(_)
\* str::trim_start
TrimStart(s) == IF s = <<>> \/ ~IsWs(Head(s)) THEN s ELSE TrimStart(Tail(s))

RECURSIVE TrimEnd(_)
\* str::trim_end
TrimEnd(s) == IF s = <<>> \/ ~IsWs(s[Len(s)]) THEN s ELSE TrimEnd(SubSeq(s, 1, Len(s) - 1))

\* str::trim
Trim(s) == TrimEnd(TrimStart(s))

\* p occurs in s at 1-based position i
MatchAt(s, p, i) == i + Len(p) - 1 <= Len(s) /\ \A k \in 1..Len(p) : s[i + k - 1] = p[k]

\* str::starts_with
StartsWith(s, p) == MatchAt(s, p, 1)

\* str::ends_with
EndsWith(s, p) == Len(p) <= Len(s) /\ MatchAt(s, p, Len(s) - Len(p) + 1)

\* the 1-based positions at which p occurs in s
Occurrences(s, p) == {i \in 1..(Len(s) - Len(p) + 1) : MatchAt(s, p, i)}

\* str::find: 0-based index of the first occurrence, -1 for None
Find(s, p) ==
    LET occ == Occurrences(s, p)
    IN  IF occ = {} THEN -1 ELSE (CHOOSE i \in occ : \A j \in occ : i <= j) - 1

\* str::rfind: 0-based index of the last occurrence, -1 for None
RFind(s, p) ==
    LET occ == Occurrences(s, p)
    IN  IF occ = {} THEN -1 ELSE (CHOOSE i \in occ : \A j \in occ : i >= j) - 1

\* str::contains
Contains(s, p) == \E i \in 1..(Len(s) - Len(p) + 1) : MatchAt(s, p, i)

RECURSIVE Replace(_, _, _)
\* str::replace: every non-overlapping occurrence, left to right
Replace(s, from, to) ==
    LET pos == Find(s, from)
    IN  IF pos = -1 THEN s
        ELSE SubSeq(s, 1, pos) \o to \o Replace(SubSeq(s, pos + Len(from) + 1, Len(s)), from, to)

RECURSIVE TrimEndMatches(_, _)
\* str::trim_end_matches(char)
TrimEndMatches(s, c) ==
    IF s = <<>> \/ s[Len(s)] # c THEN s ELSE TrimEndMatches(SubSeq(s, 1, Len(s) - 1), c)

\* String::truncate(new_len): no effect when new_len exceeds the length
Truncate(s, n) == IF n > Len(s) THEN s ELSE SubSeq(s, 1, n)

LowerLetters == <<"a","b","c","d","e","f","g","h","i","j","k","l","m","n","o","p","q","r","s","t","u","v","w","x","y","z">>

UpperLetters == <<"A","B","C","D","E","F","G","H","I","J","K","L","M","N","O","P","Q","R","S","T","U","V","W","X","Y","Z">>

UpperOf == [c \in {LowerLetters[i] : i \in 1..26} |->
               UpperLetters[CHOOSE i \in 1..26 : LowerLetters[i] = c]]

LowerOf == [c \in {UpperLetters[i] : i \in 1..26} |->
               LowerLetters[CHOOSE i \in 1..26 : UpperLetters[i] = c]]

\* str::to_uppercase (ASCII)
ToUppercase(s) == [i \in 1..Len(s) |-> IF s[i] \in DOMAIN UpperOf THEN UpperOf[s[i]] ELSE s[i]]

\* str::to_lowercase (ASCII)
ToLowercase(s) == [i \in 1..Len(s) |-> IF s[i] \in DOMAIN LowerOf THEN LowerOf[s[i]] ELSE s[i]]

RECURSIVE StrLines(_)
\* str::lines: split at "\n", a trailing "\r" of a line removed, no final empty line
StrLines(s) ==
    LET p == Find(s, <<"\n">>)
        cut(l) == IF l # <<>> /\ l[Len(l)] = "\r" THEN SubSeq(l, 1, Len(l) - 1) ELSE l
    IN  IF s = <<>> THEN <<>>
        ELSE IF p = -1 THEN <<cut(s)>>
        ELSE <<cut(SubSeq(s, 1, p))>> \o StrLines(SubSeq(s, p + 2, Len(s)))

RECURSIVE Join(_, _)
\* [String]::join
Join(ls, sep) ==
    IF ls = <<>> THEN <<>>
    ELSE IF Len(ls) = 1 THEN ls[1]
    ELSE ls[1] \o sep \o Join(Tail(ls), sep)

\* str::matches(char).count()
CountChar(s, c) == Cardinality({i \in 1..Len(s) : s[i] = c})

(* ------------------------------------------------------------------ *)
(* convert_dump: the per-line steps                                    *)
(* ------------------------------------------------------------------ *)
\* IsNoise without the test for "SET "
IsNoise_WithoutSet(trimmed) ==
    \/ trimmed = <<>>
    \/ StartsWith(trimmed, <<"-","-">>)
    \/ StartsWith(trimmed, <<"/","*">>)
    \/ StartsWith(trimmed, <<"L","O","C","K"," ","T","A","B","L","E","S">>)
    \/ StartsWith(trimmed, <<"U","N","L","O","C","K"," ","T","A","B","L","E","S">>)
    \/ StartsWith(trimmed, <<"D","E","L","I","M","I","T","E","R"," ">>)
    \/ StartsWith(trimmed, <<"S","T","A","R","T"," ","T","R","A","N","S","A","C","T","I","O","N">>)
    \/ StartsWith(trimmed, <<"C","O","M","M","I","T">>)
    \/ StartsWith(trimmed, <<"R","O","L","L","B","A","C","K">>)
    \/ StartsWith(trimmed, <<"U","S","E"," ">>)
    \/ StartsWith(trimmed, <<"C","R","E","A","T","E"," ","D","A","T","A","B","A","S","E">>)
    \/ StartsWith(trimmed, <<"C","R","E","A","T","E"," ","S","C","H","E","M","A">>)
    \/ StartsWith(trimmed, <<"D","R","O","P"," ","D","A","T","A","B","A","S","E">>)
    \/ StartsWith(trimmed, <<"/","*","!">>)

\* the skip condition on the left-trimmed line
IsNoise(trimmed) ==
    \/ trimmed = <<>>
    \/ StartsWith(trimmed, <<"-","-">>)
    \/ StartsWith(trimmed, <<"/","*">>)
    \/ StartsWith(trimmed, <<"L","O","C","K"," ","T","A","B","L","E","S">>)
    \/ StartsWith(trimmed, <<"U","N","L","O","C","K"," ","T","A","B","L","E","S">>)
    \/ StartsWith(trimmed, <<"S","E","T"," ">>)
    \/ StartsWith(trimmed, <<"D","E","L","I","M","I","T","E","R"," ">>)
    \/ StartsWith(trimmed, <<"S","T","A","R","T"," ","T","R","A","N","S","A","C","T","I","O","N">>)
    \/ StartsWith(trimmed, <<"C","O","M","M","I","T">>)
    \/ StartsWith(trimmed, <<"R","O","L","L","B","A","C","K">>)
    \/ StartsWith(trimmed, <<"U","S","E"," ">>)
    \/ StartsWith(trimmed, <<"C","R","E","A","T","E"," ","D","A","T","A","B","A","S","E">>)
    \/ StartsWith(trimmed, <<"C","R","E","A","T","E"," ","S","C","H","E","M","A">>)
    \/ StartsWith(trimmed, <<"D","R","O","P"," ","D","A","T","A","B","A","S","E">>)
    \/ StartsWith(trimmed, <<"/","*","!">>)

\* inline "--" comment stripping, guarded by the parity of the quotes before it
StripInline(line) ==
    LET idx == Find(line, <<"-","-">>)
    IN  IF idx # -1
        THEN LET before == SubSeq(line, 1, idx)
             IN  IF CountChar(before, "'") % 2 = 0 THEN before ELSE line
        ELSE line

\* the original trimmed line ends the statement
EndsStatement(trimmed) == EndsWith(trimmed, <<";">>)

(* ------------------------------------------------------------------ *)
(* convert_dump: the CREATE TABLE rewrite                               *)
(* ------------------------------------------------------------------ *)
\* cut at the last ")" and re-append ";"
TruncateAtParen(exec_stmt) ==
    LET pos == RFind(exec_stmt, <<")">>)
    IN  IF pos # -1 THEN SubSeq(exec_stmt, 1, pos + 1) \o <<";">> ELSE exec_stmt

\* a line of the statement that is dropped
IsKeyLine(upper) ==
    \/ StartsWith(upper, <<"P","R","I","M","A","R","Y"," ","K","E","Y">>)
    \/ StartsWith(upper, <<"U","N","I","Q","U","E"," ","K","E","Y">>)
    \/ StartsWith(upper, <<"K","E","Y">>)
    \/ StartsWith(upper, <<"C","O","N","S","T","R","A","I","N","T">>)

\* the AUTO_INCREMENT branch
AutoIncrementStep(l, upper) ==
    IF Contains(upper, <<"A","U","T","O","_","I","N","C","R","E","M","E","N","T">>)
    THEN LET has_comma == EndsWith(TrimEnd(l), <<",">>)
             l1 == Replace(l, <<"A","U","T","O","_","I","N","C","R","E","M","E","N","T">>, <<>>)
             comma == IF has_comma THEN <<",">> ELSE <<>>
         IN  IF ~Contains(upper, <<"P","R","I","M","A","R","Y"," ","K","E","Y">>)
             THEN TrimEndMatches(l1, ",") \o <<" ","P","R","I","M","A","R","Y"," ","K","E","Y"," ","A","U","T","O","I","N","C","R","E","M","E","N","T">> \o comma
             ELSE IF ~Contains(upper, <<"A","U","T","O","I","N","C","R","E","M","E","N","T">>)
             THEN TrimEndMatches(l1, ",") \o <<" ","A","U","T","O","I","N","C","R","E","M","E","N","T">> \o comma
             ELSE l1
    ELSE l

\* the UNSIGNED branch
UnsignedStep(l, upper) ==
    IF Contains(upper, <<"U","N","S","I","G","N","E","D">>) THEN Replace(l, <<"U","N","S","I","G","N","E","D">>, <<>>) ELSE l

\* the COMMENT branch: pos is an index into upper, applied to l
CommentStep(l, upper) ==
    LET pos == Find(upper, <<"C","O","M","M","E","N","T">>)
    IN  IF pos # -1
        THEN LET comma == EndsWith(TrimEnd(l), <<",">>)
             IN  Truncate(l, pos) \o (IF comma THEN <<",">> ELSE <<>>)
        ELSE l

\* one iteration of the loop over exec_stmt.lines(): upper is the upper-cased
\* left-trimmed line, the steps rewrite the line itself
RewriteLine(l) ==
    LET upper == ToUppercase(TrimStart(l))
    IN  CommentStep(UnsignedStep(AutoIncrementStep(l, upper), upper), upper)

\* the retained lines with their rewrites, in order
CleanedOf(exec_stmt) ==
    LET ls == StrLines(exec_stmt)
        kept == SelectSeq(ls, LAMBDA l : ~IsKeyLine(ToUppercase(TrimStart(l))))
    IN  [i \in 1..Len(kept) |-> [l |-> kept[i], out |-> RewriteLine(kept[i])]]

\* join and remove a comma before the closing parenthesis
JoinCleaned(cl) ==
    LET joined == Join([i \in 1..Len(cl) |-> cl[i].out], <<"\n">>)
    IN  Replace(Replace(joined, <<",","\n",")">>, <<"\n",")">>), <<",","\n",")",";">>, <<"\n",")",";">>)

\* the statement's text is rewritten when it starts with CREATE TABLE
IsCreateTable(exec_stmt) == StartsWith(exec_stmt, <<"C","R","E","A","T","E"," ","T","A","B","L","E">>)

\* exec_stmt as it reaches the ALTER TABLE test
Translate(exec_stmt) ==
    IF IsCreateTable(exec_stmt)
    THEN JoinCleaned(CleanedOf(TruncateAtParen(exec_stmt)))
    ELSE exec_stmt

(* ------------------------------------------------------------------ *)
(* convert_dump: the ALTER TABLE filter                                 *)
(* ------------------------------------------------------------------ *)
\* IsUnsupportedAlter without the test for "add key"
IsUnsupportedAlter_WithoutAddKey(exec_stmt) ==
    /\ StartsWith(exec_stmt, <<"A","L","T","E","R"," ","T","A","B","L","E">>)
    /\ LET lower == ToLowercase(exec_stmt)
       IN  \/ Contains(lower, <<"a","d","d"," ","p","r","i","m","a","r","y"," ","k","e","y">>)
           \/ Contains(lower, <<"a","d","d"," ","u","n","i","q","u","e">>)
           \/ Contains(lower, <<"a","d","d"," ","i","n","d","e","x">>)

\* the statement is an ALTER TABLE that is logged and dropped
IsUnsupportedAlter(exec_stmt) ==
    /\ StartsWith(exec_stmt, <<"A","L","T","E","R"," ","T","A","B","L","E">>)
    /\ LET lower == ToLowercase(exec_stmt)
       IN  \/ Contains(lower, <<"a","d","d"," ","p","r","i","m","a","r","y"," ","k","e","y">>)
           \/ Contains(lower, <<"a","d","d"," ","u","n","i","q","u","e">>)
           \/ Contains(lower, <<"a","d","d"," ","k","e","y">>)
           \/ Contains(lower, <<"a","d","d"," ","i","n","d","e","x">>)

(* ------------------------------------------------------------------ *)
(* the dump: what the reader can deliver                                *)
(* ------------------------------------------------------------------ *)
\* directive and comment lines as an export tool writes them, plus blank lines
HeaderLines ==
    << <<"-","-"," ","c">>,   (* -- c *)
       <<>>,
       <<" "," ">>,   (*    *)
       <<"/","*"," ","c"," ","*","/">>,   (* /* c */ *)
       <<"/","*","!","4"," ","x"," ","*","/",";">>,   (* /*!4 x */; *)
       <<"L","O","C","K"," ","T","A","B","L","E","S"," ","t",";">>,   (* LOCK TABLES t; *)
       <<"U","N","L","O","C","K"," ","T","A","B","L","E","S",";">>,   (* UNLOCK TABLES; *)
       <<"S","E","T"," ","a","=","1",";">>,   (* SET a=1; *)
       <<"D","E","L","I","M","I","T","E","R"," ",";">>,   (* DELIMITER ; *)
       <<"S","T","A","R","T"," ","T","R","A","N","S","A","C","T","I","O","N",";">>,   (* START TRANSACTION; *)
       <<"C","O","M","M","I","T",";">>,   (* COMMIT; *)
       <<"R","O","L","L","B","A","C","K",";">>,   (* ROLLBACK; *)
       <<"U","S","E"," ","d",";">>,   (* USE d; *)
       <<"C","R","E","A","T","E"," ","D","A","T","A","B","A","S","E"," ","d",";">>,   (* CREATE DATABASE d; *)
       <<"C","R","E","A","T","E"," ","S","C","H","E","M","A"," ","d",";">>,   (* CREATE SCHEMA d; *)
       <<"D","R","O","P"," ","D","A","T","A","B","A","S","E"," ","d",";">>,   (* DROP DATABASE d; *)
       <<" "," ","S","E","T"," ","b","=","2",";">>   (*   SET b=2; *)
    >>

\* pieces of a dump file, each a run of consecutive physical lines
Fragments ==
    { HeaderLines,
      << <<"I","N","S","E","R","T"," ","I","N","T","O"," ","t"," ","V","A","L","U","E","S">>,   (* INSERT INTO t VALUES *)
         <<" "," ","(","1",")",",">>,   (*   (1), *)
         <<" "," ","(","2",")",";">>   (*   (2); *)
      >>,
      << <<"I","N","S","E","R","T"," ","I","N","T","O"," ","t"," ","V","A","L","U","E","S"," ","(","1",")",";"," ","-","-"," ","c">>   (* INSERT INTO t VALUES (1); -- c *)
      >>,
      << <<"I","N","S","E","R","T"," ","I","N","T","O"," ","t"," ","V","A","L","U","E","S"," ","(","'","a","-","-","b","'",")",";">>   (* INSERT INTO t VALUES ('a--b'); *)
      >>,
      << <<"I","N","S","E","R","T"," ","I","N","T","O"," ","t"," ","-","-"," ","c">>,   (* INSERT INTO t -- c *)
         <<"/","*"," ","c"," ","*","/">>,   (* /* c */ *)
         <<"V","A","L","U","E","S"," ","(","3",")",";">>   (* VALUES (3); *)
      >>,
      << <<"U","P","D","A","T","E"," ","t">>,   (* UPDATE t *)
         <<"S","E","T"," ","a","=","1",";">>   (* SET a=1; *)
      >>,
      << <<"(","9",")",";">>   (* (9); *)
      >>,
      << <<"A","L","T","E","R"," ","T","A","B","L","E"," ","t"," ","A","D","D"," ","I","N","D","E","X"," ","i"," ","(","c",")",";">>   (* ALTER TABLE t ADD INDEX i (c); *)
      >>,
      << <<"A","L","T","E","R"," ","T","A","B","L","E"," ","t"," ","A","D","D"," ","C","O","L","U","M","N"," ","c"," ","I","N","T",";">>   (* ALTER TABLE t ADD COLUMN c INT; *)
      >>,
      << <<"A","L","T","E","R"," ","T","A","B","L","E"," ","t">>,   (* ALTER TABLE t *)
         <<" "," ","A","D","D"," ","P","R","I","M","A","R","Y"," ","K","E","Y"," ","(","i","d",")",";">>   (*   ADD PRIMARY KEY (id); *)
      >>,
      << <<"A","L","T","E","R"," ","T","A","B","L","E"," ","t"," ","A","D","D"," ","U","N","I","Q","U","E"," ","(","c",")",";">>   (* ALTER TABLE t ADD UNIQUE (c); *)
      >>,
      << <<"A","L","T","E","R"," ","T","A","B","L","E"," ","t"," ","a","d","d"," ","k","e","y"," ","k"," ","(","c",")",";">>   (* ALTER TABLE t add key k (c); *)
      >>,
      << <<"C","R","E","A","T","E"," ","T","A","B","L","E"," ","t"," ","(","i","d"," ","I","N","T"," ","A","U","T","O","_","I","N","C","R","E","M","E","N","T",","," ","n","a","m","e"," ","V","A","R","C","H","A","R","(","1","0",")"," ","U","N","S","I","G","N","E","D",","," ","P","R","I","M","A","R","Y"," ","K","E","Y"," ","(","i","d",")",")",";">>   (* CREATE TABLE t (id INT AUTO_INCREMENT, name VARCHAR(10) UNSIGNED, PRIMARY KEY (id)); *)
      >>,
      << <<"C","R","E","A","T","E"," ","T","A","B","L","E"," ","t"," ","(">>,   (* CREATE TABLE t ( *)
         <<" "," ","i","d"," ","I","N","T"," ","A","U","T","O","_","I","N","C","R","E","M","E","N","T",",">>,   (*   id INT AUTO_INCREMENT, *)
         <<" "," ","n"," ","I","N","T"," ","U","N","S","I","G","N","E","D"," ","C","O","M","M","E","N","T"," ","'","c","'",",">>,   (*   n INT UNSIGNED COMMENT 'c', *)
         <<" "," ","P","R","I","M","A","R","Y"," ","K","E","Y"," ","(","i","d",")">>,   (*   PRIMARY KEY (id) *)
         <<")"," ","E","N","G","I","N","E","=","X",";">>   (* ) ENGINE=X; *)
      >>,
      << <<"C","R","E","A","T","E"," ","T","A","B","L","E"," ","u"," ","(">>,   (* CREATE TABLE u ( *)
         <<"i","d"," ","i","n","t"," ","a","u","t","o","_","i","n","c","r","e","m","e","n","t",",">>,   (* id int auto_increment, *)
         <<"n"," ","I","N","T">>,   (* n INT *)
         <<")",";">>   (* ); *)
      >>,
      << <<"C","R","E","A","T","E"," ","T","A","B","L","E"," ","v"," ","(">>,   (* CREATE TABLE v ( *)
         <<" "," ","i","d"," ","I","N","T"," ","C","O","M","M","E","N","T"," ","'","c","'",",">>,   (*   id INT COMMENT 'c', *)
         <<" "," ","K","E","Y"," ","k"," ","(","i","d",")">>,   (*   KEY k (id) *)
         <<" "," ",")",";">>   (*   ); *)
      >>,
      << <<"C","R","E","A","T","E"," ","T","A","B","L","E"," ","w"," ","(">>,   (* CREATE TABLE w ( *)
         <<"i","d"," ","I","N","T"," ","P","R","I","M","A","R","Y"," ","K","E","Y"," ","A","U","T","O","_","I","N","C","R","E","M","E","N","T",",">>,   (* id INT PRIMARY KEY AUTO_INCREMENT, *)
         <<"n"," ","I","N","T"," ","C","O","M","M","E","N","T"," ","'","c","'",",">>,   (* n INT COMMENT 'c', *)
         <<"m"," ","I","N","T"," ","U","N","S","I","G","N","E","D">>,   (* m INT UNSIGNED *)
         <<")",";">>   (* ); *)
      >> }

(* ------------------------------------------------------------------ *)
(* convert_remote: the pure parts                                       *)
(* ------------------------------------------------------------------ *)
\* should_skip_table without the early return on a non-empty include list
should_skip_table_ExcludeOnly(a, t) ==
    IF t \in a.exclude_tables THEN TRUE
    ELSE FALSE

\* should_skip_table; the two Vec<String> are used through contains() only
should_skip_table(a, t) ==
    IF a.include_tables # {} /\ t \notin a.include_tables THEN TRUE
    ELSE IF t \in a.exclude_tables THEN TRUE
    ELSE FALSE

\* sqlite_ty with the json branch not testing the flag
sqlite_ty_JsonAlwaysText(ty, json_as_text) ==
    IF StartsWith(ToLowercase(ty), <<"i","n","t">>) THEN <<"I","N","T","E","G","E","R">>
    ELSE IF StartsWith(ToLowercase(ty), <<"v","a","r","c","h","a","r">>) \/ StartsWith(ToLowercase(ty), <<"t","e","x","t">>)
    THEN <<"T","E","X","T">>
    ELSE IF StartsWith(ToLowercase(ty), <<"j","s","o","n">>) THEN <<"T","E","X","T">>
    ELSE <<"B","L","O","B">>

\* sqlite_ty of a column of type ty
sqlite_ty(ty, json_as_text) ==
    IF StartsWith(ToLowercase(ty), <<"i","n","t">>) THEN <<"I","N","T","E","G","E","R">>
    ELSE IF StartsWith(ToLowercase(ty), <<"v","a","r","c","h","a","r">>) \/ StartsWith(ToLowercase(ty), <<"t","e","x","t">>)
    THEN <<"T","E","X","T">>
    ELSE IF StartsWith(ToLowercase(ty), <<"j","s","o","n">>) /\ json_as_text THEN <<"T","E","X","T">>
    ELSE <<"B","L","O","B">>

\* create_sql after the loop over desc and the closing parenthesis
CreateSql(t, d, json_as_text) ==
    <<"C","R","E","A","T","E"," ","T","A","B","L","E"," ","I","F"," ","N","O","T"," ","E","X","I","S","T","S"," ","bq">> \o t \o <<"bq"," ","(">>
      \o Join([i \in 1..Len(d) |->
                 <<"bq">> \o d[i].Field \o <<"bq"," ">> \o sqlite_ty(d[i].Type, json_as_text)],
              <<","," ">>)
      \o <<")">>

\* the text of the prepared insert
InsertSql(t, d) ==
    <<"I","N","S","E","R","T"," ","I","N","T","O"," ","bq">> \o t \o <<"bq"," ","(">>
      \o Join([i \in 1..Len(d) |-> <<"bq">> \o d[i].Field \o <<"bq">>], <<",">>)
      \o <<")"," ","V","A","L","U","E","S"," ","(">>
      \o Join([i \in 1..Len(d) |-> <<"?">>], <<",">>)
      \o <<")">>

(* ------------------------------------------------------------------ *)
(* the source database: what it can report                              *)
(* ------------------------------------------------------------------ *)
TableNames == { <<"a">>, <<"b">>, <<"c">> }

\* SHOW TABLES: any listing of distinct names
TableLists ==
    UNION { { f \in [1..n -> TableNames] : \A i, j \in 1..n : f[i] = f[j] => i = j }
            : n \in 0..Cardinality(TableNames) }

TypeNames ==
    { <<"I","N","T","(","1","1",")">>,   (* INT(11) *)
      <<"V","A","R","C","H","A","R","(","2","5","5",")">>,   (* VARCHAR(255) *)
      <<"T","e","x","t">>,   (* Text *)
      <<"J","S","O","N">>,   (* JSON *)
      <<"D","A","T","E","T","I","M","E">>,   (* DATETIME *)
      <<"t","i","n","y","i","n","t","(","1",")">>   (* tinyint(1) *)
    }

Digits == <<"1","2","3","4","5","6","7","8","9">>

\* DESCRIBE: one row (Field, Type) per column
Descs ==
    UNION { { [i \in 1..n |-> [Field |-> <<"c", Digits[i]>>, Type |-> f[i]]]
              : f \in [1..n -> TypeNames] }
            : n \in 1..MaxCols }

(* ------------------------------------------------------------------ *)
(* state                                                                *)
(* ------------------------------------------------------------------ *)
VARIABLES
    args,        \* Args: input (is a dump file given), include_tables, exclude_tables, json_as_text
    pc,          \* where the run is: "loop" (convert_dump), "list" | "table" | "select" | "rows"
                 \* (convert_remote), "done" | "failed" | "panicked"
    result,      \* what convert_dump / convert_remote returned: "none" | "Ok" | "Err"
    pending,     \* lines of the current fragment the reader has not yet delivered
    nfrag,       \* fragments started
    consumed,    \* the lines read so far, in order (history)
    statement,   \* the statement buffer
    bufLines,    \* indices in consumed of the lines appended to the buffer (history)
    emitted,     \* the statements that reached the pipeline, in order (history)
    cleaned,     \* the cleaned Vec of the last statement, with each line's source
    tables,      \* the part of the SHOW TABLES listing the loop has not reached
    seen,        \* the tables the loop has taken, in order (history)
    table,       \* the table being processed
    desc,        \* its DESCRIBE rows, until the insert is prepared
    create_sql,  \* its CREATE TABLE text, until the insert is prepared
    insert_sql,  \* the text of its prepared insert
    rows,        \* rows of its SELECT * not yet inserted
    ops,         \* the calls made on source and destination, in order (history)
    cause        \* the call whose error the ? operator returned: "none" | "read" | "list" |
                 \* "describe" | "create" | "prepare" | "select" | "insert" (history)

dumpVars == <<pending, nfrag, consumed, statement, bufLines, emitted, cleaned>>

remoteVars == <<tables, seen, table, desc, create_sql, insert_sql, rows, ops>>

vars == <<args, pc, result, cause, dumpVars, remoteVars>>

\* the arguments of a run on a dump file (convert_dump ignores its _args)
DumpArgs ==
    { [input |-> TRUE, include_tables |-> {}, exclude_tables |-> {}, json_as_text |-> TRUE] }

\* the arguments of a run on a live server
RemoteArgs ==
    [input : {FALSE}, include_tables : SUBSET TableNames,
     exclude_tables : SUBSET TableNames, json_as_text : BOOLEAN]

\* main: the parsed arguments, then convert_dump when an input file is given,
\* else convert_remote
Started(argset) ==
    /\ args \in argset
    /\ pc = IF args.input THEN "loop" ELSE "list"
    /\ result = "none"
    /\ pending = <<>>
    /\ nfrag = 0
    /\ consumed = <<>>
    /\ statement = <<>>
    /\ bufLines = <<>>
    /\ emitted = <<>>
    /\ cleaned = <<>>
    /\ tables = <<>>
    /\ seen = <<>>
    /\ table = <<>>
    /\ desc = <<>>
    /\ create_sql = <<>>
    /\ insert_sql = <<>>
    /\ rows = 0
    /\ ops = <<>>
    /\ cause = "none"

\* a run on a dump file
Init == Started(DumpArgs)

\* a run on a live server
InitRemote == Started(RemoteArgs)

\* a call returned Err and the ? operator returned it to main
Fail(c) ==
    /\ pc' = "failed"
    /\ result' = "Err"
    /\ cause' = c

(* ------------------------------------------------------------------ *)
(* convert_dump                                                         *)
(* ------------------------------------------------------------------ *)
\* the reader's next item: the rest of the current fragment, or a new fragment
NextInput ==
    IF pending # <<>> THEN {pending}
    ELSE IF nfrag < MaxFragments THEN Fragments
    ELSE {}

\* reader.lines() yields Head(src)
Read(src) ==
    /\ consumed' = Append(consumed, Head(src))
    /\ pending' = Tail(src)
    /\ nfrag' = IF pending = <<>> THEN nfrag + 1 ELSE nfrag

\* Pushed without push('\n')
Pushed_WithoutNewline(line) == statement \o StripInline(line)

\* statement after push_str(&line) and push('\n')
Pushed(line) == statement \o StripInline(line) \o <<"\n">>

\* the loop body on a noise line: continue
SkipLine ==
    /\ pc = "loop"
    /\ \E src \in NextInput :
         /\ IsNoise(TrimStart(Head(src)))
         /\ Read(src)
    /\ UNCHANGED <<args, pc, result, cause, statement, bufLines, emitted, cleaned, remoteVars>>

\* the loop body on a content line that does not end the statement
AppendLine ==
    /\ pc = "loop"
    /\ \E src \in NextInput :
         LET line == Head(src)
             trimmed == TrimStart(line)
         IN  /\ ~IsNoise(trimmed)
             /\ ~EndsStatement(trimmed)
             /\ Read(src)
             /\ statement' = Pushed(line)
             /\ bufLines' = Append(bufLines, Len(consumed) + 1)
    /\ UNCHANGED <<args, pc, result, cause, emitted, cleaned, remoteVars>>

\* the loop body on a content line that ends the statement, up to
\* statement.clear(); fate is what happens to exec_stmt: "skipped" by the
\* ALTER filter, else execute_batch returning Ok ("ok") or Err ("err")
Complete(fate) ==
    /\ pc = "loop"
    /\ \E src \in NextInput :
         LET line == Head(src)
             trimmed == TrimStart(line)
             exec0 == Trim(Pushed(line))
             exec_stmt == Translate(exec0)
         IN  /\ ~IsNoise(trimmed)
             /\ EndsStatement(trimmed)
             /\ IsUnsupportedAlter(exec_stmt) <=> (fate = "skipped")
             /\ Read(src)
             /\ cleaned' = IF IsCreateTable(exec0)
                           THEN CleanedOf(TruncateAtParen(exec0))
                           ELSE <<>>
             /\ emitted' = Append(emitted,
                    [at |-> Len(consumed) + 1,
                     from |-> Append(bufLines, Len(consumed) + 1),
                     stmt |-> exec0,
                     sql |-> exec_stmt,
                     fate |-> fate])
             /\ statement' = <<>>
             /\ bufLines' = <<>>
    /\ UNCHANGED <<args, remoteVars>>

\* unsupported ALTER TABLE: logged at debug level, buffer cleared, continue
SkipAlter == Complete("skipped") /\ UNCHANGED <<pc, result, cause>>

\* conn.execute_batch(&exec_stmt) returns Ok
ExecuteOk == Complete("ok") /\ UNCHANGED <<pc, result, cause>>

\* ExecuteErr with the error returned by ? instead of logged
ExecuteErr_Propagates == Complete("err") /\ Fail("execute_batch")

\* conn.execute_batch(&exec_stmt) returns Err: logged, buffer cleared
ExecuteErr == Complete("err") /\ UNCHANGED <<pc, result, cause>>

\* reader.lines() is exhausted: Ok(())
EndOfStream ==
    /\ pc = "loop"
    /\ pending = <<>>
    /\ pc' = "done"
    /\ result' = "Ok"
    /\ UNCHANGED <<args, cause, dumpVars, remoteVars>>

\* let line = line?; an unreadable line ends convert_dump with the error
ReadError ==
    /\ pc = "loop"
    /\ NextInput # {}
    /\ Fail("read")
    /\ UNCHANGED <<args, dumpVars, remoteVars>>

(* ------------------------------------------------------------------ *)
(* convert_remote                                                       *)
(* ------------------------------------------------------------------ *)
Op(o, t, ok) == [op |-> o, table |-> t, ok |-> ok]

\* Pool::new, get_conn and SHOW TABLES succeed
ListTables ==
    /\ pc = "list"
    /\ \E ts \in TableLists : tables' = ts
    /\ pc' = "table"
    /\ UNCHANGED <<args, result, dumpVars, seen, table, desc, create_sql, insert_sql, rows, ops, cause>>

\* Pool::new, get_conn or SHOW TABLES fails
ListTablesErr ==
    /\ pc = "list"
    /\ Fail("list")
    /\ UNCHANGED <<args, dumpVars, tables, seen, table, desc, create_sql, insert_sql, rows, ops>>

\* the loop takes a table that should_skip_table rejects: continue
SkipTable ==
    /\ pc = "table"
    /\ tables # <<>>
    /\ should_skip_table(args, Head(tables))
    /\ tables' = Tail(tables)
    /\ seen' = Append(seen, Head(tables))
    /\ UNCHANGED <<args, pc, result, dumpVars, table, desc, create_sql, insert_sql, rows, ops, cause>>

\* the loop takes a table: DESCRIBE, CREATE TABLE IF NOT EXISTS, prepare
CreateTable ==
    /\ pc = "table"
    /\ tables # <<>>
    /\ ~should_skip_table(args, Head(tables))
    /\ \E d \in Descs :
         /\ desc' = d
         /\ create_sql' = CreateSql(Head(tables), d, args.json_as_text)
         /\ insert_sql' = InsertSql(Head(tables), d)
    /\ table' = Head(tables)
    /\ tables' = Tail(tables)
    /\ seen' = Append(seen, Head(tables))
    /\ ops' = ops \o << Op("describe", Head(tables), TRUE), Op("create", Head(tables), TRUE),
                        Op("prepare", Head(tables), TRUE) >>
    /\ pc' = "select"
    /\ UNCHANGED <<args, result, dumpVars, rows, cause>>

\* the same, with the first failing call among DESCRIBE, create, prepare
CreateTableErr ==
    /\ pc = "table"
    /\ tables # <<>>
    /\ ~should_skip_table(args, Head(tables))
    /\ \E n \in 1..3 :
         LET calls == << "describe", "create", "prepare" >>
         IN  /\ ops' = ops \o [i \in 1..n |-> Op(calls[i], Head(tables), i < n)]
             /\ Fail(calls[n])
    /\ table' = Head(tables)
    /\ tables' = Tail(tables)
    /\ seen' = Append(seen, Head(tables))
    /\ UNCHANGED <<args, dumpVars, desc, create_sql, insert_sql, rows>>

\* SELECT * returns its rows; desc and create_sql are not read again
SelectRows ==
    /\ pc = "select"
    /\ \E n \in 0..MaxRows : rows' = n
    /\ ops' = Append(ops, Op("select", table, TRUE))
    /\ desc' = <<>>
    /\ create_sql' = <<>>
    /\ pc' = "rows"
    /\ UNCHANGED <<args, result, dumpVars, tables, seen, table, insert_sql, cause>>

\* SELECT * fails
SelectRowsErr ==
    /\ pc = "select"
    /\ ops' = Append(ops, Op("select", table, FALSE))
    /\ Fail("select")
    /\ UNCHANGED <<args, dumpVars, tables, seen, table, desc, create_sql, insert_sql, rows>>

\* one row: its values are converted and stmt.execute returns Ok
InsertRow ==
    /\ pc = "rows"
    /\ rows > 0
    /\ rows' = rows - 1
    /\ ops' = Append(ops, Op("insert", table, TRUE))
    /\ UNCHANGED <<args, pc, result, dumpVars, tables, seen, table, desc, create_sql, insert_sql, cause>>

\* one row: stmt.execute(..)? returns Err
InsertRowErr ==
    /\ pc = "rows"
    /\ rows > 0
    /\ ops' = Append(ops, Op("insert", table, FALSE))
    /\ Fail("insert")
    /\ UNCHANGED <<args, dumpVars, tables, seen, table, desc, create_sql, insert_sql, rows>>

\* one row: a Bytes value is not UTF-8 and from_utf8(..).unwrap() panics
RowPanic ==
    /\ pc = "rows"
    /\ rows > 0
    /\ pc' = "panicked"
    /\ UNCHANGED <<args, result, cause, dumpVars, remoteVars>>

\* the rows are exhausted: the iteration ends and its locals are dropped
TableDone ==
    /\ pc = "rows"
    /\ rows = 0
    /\ table' = <<>>
    /\ insert_sql' = <<>>
    /\ pc' = "table"
    /\ UNCHANGED <<args, result, dumpVars, tables, seen, desc, create_sql, rows, ops, cause>>

\* the listing is exhausted: Ok(())
Finish ==
    /\ pc = "table"
    /\ tables = <<>>
    /\ pc' = "done"
    /\ result' = "Ok"
    /\ UNCHANGED <<args, cause, dumpVars, remoteVars>>

Next ==
    \/ SkipLine
    \/ AppendLine
    \/ SkipAlter
    \/ ExecuteOk
    \/ ExecuteErr
    \/ EndOfStream
    \/ ReadError

NextRemote ==
    \/ ListTables
    \/ ListTablesErr
    \/ SkipTable
    \/ CreateTable
    \/ CreateTableErr
    \/ SelectRows
    \/ SelectRowsErr
    \/ InsertRow
    \/ InsertRowErr
    \/ RowPanic
    \/ TableDone
    \/ Finish

\* dump mode
Spec == Init /\ [][Next]_vars

\* live mode
SpecRemote == InitRemote /\ [][NextRemote]_vars

(* ------------------------------------------------------------------ *)
(* vocabulary of the properties                                         *)
(* ------------------------------------------------------------------ *)
Range(f) == {f[i] : i \in DOMAIN f}

\* the prefixes that make a line a noise line
NoisePrefixes ==
    { <<"-","-">>, <<"/","*">>, <<"/","*","!">>, <<"L","O","C","K"," ","T","A","B","L","E","S">>, <<"U","N","L","O","C","K"," ","T","A","B","L","E","S">>, <<"S","E","T"," ">>, <<"D","E","L","I","M","I","T","E","R"," ">>,
      <<"S","T","A","R","T"," ","T","R","A","N","S","A","C","T","I","O","N">>, <<"C","O","M","M","I","T">>, <<"R","O","L","L","B","A","C","K">>, <<"U","S","E"," ">>, <<"C","R","E","A","T","E"," ","D","A","T","A","B","A","S","E">>,
      <<"C","R","E","A","T","E"," ","S","C","H","E","M","A">>, <<"D","R","O","P"," ","D","A","T","A","B","A","S","E">> }

\* the left-trimmed line is empty or begins with a noise prefix
NoiseLine(line) ==
    LET t == TrimStart(line)
    IN  t = <<>> \/ \E p \in NoisePrefixes : StartsWith(t, p)

\* the left-trimmed line ends with ";"
EndsSemi(line) ==
    LET t == TrimStart(line)
    IN  t # <<>> /\ t[Len(t)] = ";"

RECURSIVE Surviving(_, _)
\* what lines a..b of the dump leave behind: noise lines nothing, the others
\* their text without an inline comment, each followed by a line break
Surviving(a, b) ==
    IF a > b THEN <<>>
    ELSE (IF NoiseLine(consumed[a]) THEN <<>> ELSE StripInline(consumed[a]) \o <<"\n">>)
         \o Surviving(a + 1, b)

RECURSIVE TextOf(_)
\* the text the lines with the given indices leave behind
TextOf(idx) ==
    IF idx = <<>> THEN <<>>
    ELSE StripInline(consumed[Head(idx)]) \o <<"\n">> \o TextOf(Tail(idx))

\* the lines that are not noise and end with ";"
Terminators == {i \in 1..Len(consumed) : ~NoiseLine(consumed[i]) /\ EndsSemi(consumed[i])}

\* the line at which the statement before emitted[k] was emitted, 0 for none
PrevAt(k) == IF k = 1 THEN 0 ELSE emitted[k - 1].at

(* ------------------------------------------------------------------ *)
(* C1                                                                   *)
(* ------------------------------------------------------------------ *)
\* C1: no noise line (left-trimmed text empty or starting with a noise
\* prefix) is ever appended to the statement buffer, whether the buffer is
\* empty or holds a partial statement: the buffer and every statement handed
\* on consist of exactly the lines recorded as appended, none of them noise.
C1_NoiseNeverBuffered ==
    /\ \A i \in Range(bufLines) : ~NoiseLine(consumed[i])
    /\ statement = TextOf(bufLines)
    /\ \A k \in 1..Len(emitted) :
         /\ \A i \in Range(emitted[k].from) : ~NoiseLine(consumed[i])
         /\ emitted[k].stmt = Trim(TextOf(emitted[k].from))

\* a statement was emitted whose lines had a noise line read between them,
\* and a noise line was read while the buffer was empty
C1_Witness ==
    /\ \E k \in 1..Len(emitted) :
         \E i \in 1..emitted[k].at :
            /\ i > emitted[k].from[1]
            /\ NoiseLine(consumed[i])
    /\ \E k \in 1..Len(emitted) :
         \E i \in (PrevAt(k) + 1)..emitted[k].at :
            /\ i < emitted[k].from[1]
            /\ NoiseLine(consumed[i])

(* ------------------------------------------------------------------ *)
(* C2                                                                   *)
(* ------------------------------------------------------------------ *)
\* the first line of the statement that line i ends, when statements are
\* delimited by every line ending with ";"
StmtStart(i) ==
    LET before == {j \in 1..(i - 1) : EndsSemi(consumed[j])}
    IN  IF before = {} THEN 1 ELSE (CHOOSE j \in before : \A m \in before : j >= m) + 1

\* C2 as stated: every statement whose last line ends with ";" (and that has
\* some surviving content) is emitted exactly once, when that line is read,
\* with the surviving content of its lines, and the buffer is empty afterwards.
C2_Original ==
    \A i \in 1..Len(consumed) :
       (EndsSemi(consumed[i]) /\ \E j \in StmtStart(i)..i : ~NoiseLine(consumed[j]))
       => /\ Cardinality({k \in 1..Len(emitted) : emitted[k].at = i}) = 1
          /\ \A k \in 1..Len(emitted) :
               emitted[k].at = i => emitted[k].stmt = Trim(Surviving(StmtStart(i), i))
          /\ (i = Len(consumed) => statement = <<>>)

\* C2 (amended): every line that is not a noise line and ends with ";" emits
\* exactly one statement, when it is read; the statement is the surviving
\* content, in order, of all lines read since the previous emission (or the
\* start of the file); the buffer is empty afterwards; nothing else emits.
C2_OneStatementPerTerminator ==
    LET ends == Terminators
    IN  /\ Len(emitted) = Cardinality(ends)
        /\ \A k \in 1..Len(emitted) :
             /\ emitted[k].at \in ends
             /\ PrevAt(k) < emitted[k].at
             /\ \A i \in (PrevAt(k) + 1)..(emitted[k].at - 1) : i \notin ends
             /\ emitted[k].stmt = Trim(Surviving(PrevAt(k) + 1, emitted[k].at))
        /\ (Len(consumed) \in ends => statement = <<>>)

\* a second statement was emitted from three physical lines
C2_Witness ==
    \E k \in 2..Len(emitted) :
       /\ Len(emitted[k].from) = 3
       /\ emitted[k].at = Len(consumed)
       /\ statement = <<>>

(* ------------------------------------------------------------------ *)
(* C3                                                                   *)
(* ------------------------------------------------------------------ *)
\* C3: a failing execute_batch does not end convert_dump: only an unreadable
\* line does; the buffer is cleared after the failure; every complete
\* statement, also after a failed one, reaches the pipeline in file order and
\* is executed unless the ALTER filter drops it; at end of stream the result
\* is Ok.
C3_FailureDoesNotAbort ==
      /\ (pc = "failed" => cause = "read")
      /\ (pc = "done" => result = "Ok")
      /\ \A i \in Terminators : \E k \in 1..Len(emitted) : emitted[k].at = i
      /\ \A k \in 1..Len(emitted) :
           /\ PrevAt(k) < emitted[k].at
           /\ (emitted[k].fate = "skipped") <=> IsUnsupportedAlter(emitted[k].sql)
           /\ (emitted[k].fate = "err" /\ emitted[k].at = Len(consumed)) => statement = <<>>

\* the run ended Ok although a statement failed, and a later statement was executed
C3_Witness ==
    /\ pc = "done"
    /\ result = "Ok"
    /\ \E k \in 1..(Len(emitted) - 1) :
         /\ emitted[k].fate = "err"
         /\ emitted[k + 1].fate = "ok"

(* ------------------------------------------------------------------ *)
(* C8                                                                   *)
(* ------------------------------------------------------------------ *)
\* the lower-cased statement adds a key or an index
AddsKeyOrIndex(stmt) ==
    \E w \in { <<"a","d","d"," ","p","r","i","m","a","r","y"," ","k","e","y">>, <<"a","d","d"," ","u","n","i","q","u","e">>, <<"a","d","d"," ","k","e","y">>, <<"a","d","d"," ","i","n","d","e","x">> } :
       Contains(ToLowercase(stmt), w)

\* C8: a complete statement starting with ALTER TABLE is discarded (not
\* executed, buffer cleared, the loop goes on) exactly when its lower-cased
\* text contains add primary key, add unique, add key or add index; every
\* other ALTER TABLE statement is executed with its text unmodified.
C8_AlterFilter ==
    \A k \in 1..Len(emitted) :
       LET e == emitted[k]
       IN  StartsWith(e.stmt, <<"A","L","T","E","R"," ","T","A","B","L","E">>)
           => /\ (e.fate = "skipped") <=> AddsKeyOrIndex(e.stmt)
              /\ (e.fate # "skipped" => e.sql = e.stmt)
              /\ (e.at = Len(consumed) => statement = <<>>)
              /\ (pc = "failed" => cause = "read")

\* an ALTER TABLE .. ADD .. was discarded and the next statement, another
\* ALTER TABLE, was executed
C8_Witness ==
    \E k \in 1..(Len(emitted) - 1) :
       /\ StartsWith(emitted[k].stmt, <<"A","L","T","E","R"," ","T","A","B","L","E">>)
       /\ emitted[k].fate = "skipped"
       /\ StartsWith(emitted[k + 1].stmt, <<"A","L","T","E","R"," ","T","A","B","L","E">>)
       /\ emitted[k + 1].fate = "ok"

(* ------------------------------------------------------------------ *)
(* C4, C5: convert_remote                                               *)
(* ------------------------------------------------------------------ *)
\* C4 as stated: an insert that fails on the destination is swallowed at the
\* row boundary, so convert_remote never returns an error because of it.
C4_InsertFailureNotFatal == ~(result = "Err" /\ cause = "insert")

\* the filter of the Table Filter Set
Passes(t) ==
    /\ (args.include_tables = {} \/ t \in args.include_tables)
    /\ t \notin args.exclude_tables

\* the tables of the calls named o, in call order
TablesOf(o) ==
    LET sel == SelectSeq(ops, LAMBDA c : c.op = o)
    IN  [i \in 1..Len(sel) |-> sel[i].table]

\* C5: of the tables the loop has taken, exactly those that pass the filter
\* (include empty or table in include, and table not in exclude) are
\* described, in the order reported; no call is ever made for a table that
\* does not pass; a run that returns Ok has taken every reported table and
\* has described, created and copied each one that passes.
C5_TableFilter ==
      /\ TablesOf("describe") = SelectSeq(seen, Passes)
      /\ \A i \in 1..Len(ops) : Passes(ops[i].table) /\ ops[i].table \in Range(seen)
      /\ (pc = "done" =>
            /\ tables = <<>>
            /\ TablesOf("create") = SelectSeq(seen, Passes)
            /\ TablesOf("select") = SelectSeq(seen, Passes)
            /\ \A i \in 1..Len(ops) : ops[i].ok)

\* include = {a, b}, exclude = {b}, listing a, b, c: the run is over, only a
\* was processed and its row was inserted
C5_Witness ==
    /\ pc = "done"
    /\ args.include_tables = { <<"a">>, <<"b">> }
    /\ args.exclude_tables = { <<"b">> }
    /\ seen = << <<"a">>, <<"b">>, <<"c">> >>
    /\ TablesOf("insert") = << <<"a">> >>

(* ------------------------------------------------------------------ *)
(* C9                                                                   *)
(* ------------------------------------------------------------------ *)
\* the storage class the mapping is to give
StorageClass(ty, flag) ==
    LET lo == ToLowercase(ty)
    IN  IF StartsWith(lo, <<"i","n","t">>) THEN <<"I","N","T","E","G","E","R">>
        ELSE IF StartsWith(lo, <<"v","a","r","c","h","a","r">>) \/ StartsWith(lo, <<"t","e","x","t">>) THEN <<"T","E","X","T">>
        ELSE IF StartsWith(lo, <<"j","s","o","n">>) THEN (IF flag THEN <<"T","E","X","T">> ELSE <<"B","L","O","B">>)
        ELSE <<"B","L","O","B">>

RECURSIVE Split(_, _)
\* the parts of s between occurrences of sep
Split(s, sep) ==
    LET pos == Find(s, sep)
    IN  IF pos = -1 THEN <<s>>
        ELSE <<SubSeq(s, 1, pos)>> \o Split(SubSeq(s, pos + Len(sep) + 1, Len(s)), sep)

\* the type written for each column in a CREATE TABLE text of convert_remote
WrittenTypes(sql) ==
    LET body == SubSeq(sql, Find(sql, <<"(">>) + 2, Len(sql) - 1)
        cols == Split(body, <<","," ">>)
    IN  [i \in 1..Len(cols) |-> SubSeq(cols[i], Find(cols[i], <<"bq"," ">>) + 3, Len(cols[i]))]

\* C9: the type written for every column of the CREATE TABLE text is one of
\* INTEGER, TEXT, BLOB and is the one the prefix rules give for the column's
\* source type and the json_as_text flag; INT(11) gives INTEGER, VARCHAR(255)
\* TEXT, JSON TEXT with the flag and BLOB without, DATETIME BLOB.
C9_TypeMapping ==
    pc = "select" =>
      /\ Len(WrittenTypes(create_sql)) = Len(desc)
      /\ \A i \in 1..Len(desc) :
           LET w == WrittenTypes(create_sql)[i]
           IN  /\ w \in { <<"I","N","T","E","G","E","R">>, <<"T","E","X","T">>, <<"B","L","O","B">> }
               /\ w = StorageClass(desc[i].Type, args.json_as_text)
               /\ (desc[i].Type = <<"I","N","T","(","1","1",")">> => w = <<"I","N","T","E","G","E","R">>)
               /\ (desc[i].Type = <<"V","A","R","C","H","A","R","(","2","5","5",")">> => w = <<"T","E","X","T">>)
               /\ (desc[i].Type = <<"J","S","O","N">> => w = IF args.json_as_text THEN <<"T","E","X","T">> ELSE <<"B","L","O","B">>)
               /\ (desc[i].Type = <<"D","A","T","E","T","I","M","E">> => w = <<"B","L","O","B">>)

\* a table with a JSON column was created with the flag unset
C9_Witness ==
    /\ pc = "select"
    /\ ~args.json_as_text
    /\ \E i \in 1..Len(desc) : desc[i].Type = <<"J","S","O","N">>
    /\ Contains(create_sql, <<"B","L","O","B">>)

(* ------------------------------------------------------------------ *)
(* C6, C7, C10: the CREATE TABLE rewrite                                *)
(* ------------------------------------------------------------------ *)
\* C6 as stated: a retained line containing AUTO_INCREMENT in any letter case
\* comes out without the token, with PRIMARY KEY AUTOINCREMENT appended when
\* it declared no PRIMARY KEY, with AUTOINCREMENT appended when it declared
\* PRIMARY KEY but not AUTOINCREMENT, and with a trailing comma if and only
\* if it had one.
C6_AutoIncrementRewrite ==
    \A i \in 1..Len(cleaned) :
       LET l == cleaned[i].l
           out == cleaned[i].out
           up == ToUppercase(l)
       IN  Contains(up, <<"A","U","T","O","_","I","N","C","R","E","M","E","N","T">>)
           => /\ ~Contains(ToUppercase(out), <<"A","U","T","O","_","I","N","C","R","E","M","E","N","T">>)
              /\ (~Contains(up, <<"P","R","I","M","A","R","Y"," ","K","E","Y">>)
                    => Contains(out, <<" ","P","R","I","M","A","R","Y"," ","K","E","Y"," ","A","U","T","O","I","N","C","R","E","M","E","N","T">>))
              /\ (Contains(up, <<"P","R","I","M","A","R","Y"," ","K","E","Y">>) /\ ~Contains(up, <<"A","U","T","O","I","N","C","R","E","M","E","N","T">>)
                    => Contains(out, <<" ","A","U","T","O","I","N","C","R","E","M","E","N","T">>))
              /\ (EndsWith(out, <<",">>) <=> EndsWith(l, <<",">>))

\* the spec's example statement
ExampleCreate ==
    <<"C","R","E","A","T","E"," ","T","A","B","L","E"," ","t"," ","(","i","d"," ","I","N","T"," ","A","U","T","O","_","I","N","C","R","E","M","E","N","T",","," ","n","a","m","e"," ","V","A","R","C","H","A","R","(","1","0",")"," ","U","N","S","I","G","N","E","D",","," ","P","R","I","M","A","R","Y"," ","K","E","Y"," ","(","i","d",")",")",";">>

\* C7 as stated: every translated CREATE TABLE statement ends with ")" and
\* ";" and has no comma right before that ")"; the example statement comes
\* out without its PRIMARY KEY (id) member and without UNSIGNED, with id
\* carrying PRIMARY KEY AUTOINCREMENT.
C7_ClosingParen ==
    \A k \in 1..Len(emitted) :
       LET stmt == emitted[k].stmt
           sql == emitted[k].sql
       IN  IsCreateTable(stmt)
           => /\ EndsWith(sql, <<")",";">>)
              /\ ~EndsWith(TrimEnd(SubSeq(sql, 1, Len(sql) - 2)), <<",">>)
              /\ (stmt = ExampleCreate
                    => /\ ~Contains(sql, <<"P","R","I","M","A","R","Y"," ","K","E","Y"," ","(","i","d",")">>)
                       /\ ~Contains(sql, <<"U","N","S","I","G","N","E","D">>)
                       /\ Contains(sql, <<"P","R","I","M","A","R","Y"," ","K","E","Y"," ","A","U","T","O","I","N","C","R","E","M","E","N","T">>))

\* C10 as stated: a retained line containing COMMENT in any letter case, with
\* any indentation and whether or not the AUTO_INCREMENT and UNSIGNED steps
\* changed it, comes out cut exactly at the COMMENT token, with a trailing
\* comma if and only if the line ended with one.
C10_CommentTruncation ==
    \A i \in 1..Len(cleaned) :
       LET l == cleaned[i].l
           out == cleaned[i].out
           upper == ToUppercase(TrimStart(l))
           r == UnsignedStep(AutoIncrementStep(l, upper), upper)
           pos == Find(ToUppercase(r), <<"C","O","M","M","E","N","T">>)
       IN  Contains(ToUppercase(l), <<"C","O","M","M","E","N","T">>)
           => out = SubSeq(r, 1, pos) \o (IF EndsWith(TrimEnd(l), <<",">>) THEN <<",">> ELSE <<>>)

====
